---- MODULE Spec2Model ----
(***************************************************************************)
(* Hook scripts of the multi-agent observability repository, as a state    *)
(* machine of one hook invocation: the event senders send_event.py and     *)
(* send_event_universal.py, the wrapper safe_send_event.py that runs       *)
(* send_event.py as a child process, the notification hooks                *)
(* notification.py and notification_server_tts.py, and the command check   *)
(* pre_tool_use_safe.py.  Pure functions (get_smart_server_url,            *)
(* detect_environment) are also applied on their own to bounded inputs.    *)
(* The installer install.py and two notification hooks that share one      *)
(* session log have state machines of their own.                           *)
(*                                                                         *)
(* Python values are modelled by records: a dict loaded from JSON keeps,   *)
(* for every key the code reads, either the value or "absent".  A text is  *)
(* a sequence of atoms; the host placeholder is one atom, so that the      *)
(* substring test and str.replace act on every occurrence of it.           *)
(***************************************************************************)
EXTENDS Integers, Sequences, FiniteSets, TLC

\* Longest transcript file, in lines.
MaxLines == 3

----------------------------------------------------------------------------
\* Texts and URLs

Placeholder == "host.docker.internal"
Loopback == "localhost"

\* 'host.docker.internal' in config_url
Contains(text, atom) == \E i \in 1..Len(text) : text[i] = atom

\* config_url.replace('host.docker.internal', 'localhost'): every occurrence
Replace(text, old, new) ==
    [i \in 1..Len(text) |-> IF text[i] = old THEN new ELSE text[i]]

\* The execution environment, as the markers the hooks read: the files
\* /.dockerenv and /run/.containerenv, "docker" in /proc/self/cgroup, the
\* variable DOCKER_CONTAINER, a /workspace or /workspaces directory,
\* sys.platform = win32, "microsoft" in /proc/version, the first nameserver
\* of /etc/resolv.conf, and the variables KUBERNETES_SERVICE_HOST,
\* OBSERVABILITY_SERVER_URL, CLAUDE_SESSION_ID, ELEVENLABS_API_KEY and
\* OPENAI_API_KEY.
BareHost ==
    [dockerenv |-> FALSE, cgroup |-> FALSE, envvar |-> FALSE,
     containerenv |-> FALSE, kubernetes |-> FALSE, workspace |-> FALSE,
     win32 |-> FALSE,
     microsoft |-> FALSE, nameserver |-> "none", obs_url |-> <<>>,
     claude_session_id |-> "none", elevenlabs_key |-> FALSE, openai_key |-> FALSE]

is_running_in_docker(env) ==
    IF env.dockerenv THEN TRUE
    ELSE IF env.cgroup THEN TRUE
    ELSE IF env.envvar THEN TRUE
    ELSE FALSE

get_smart_server_url(config_url, env) ==
    IF ~Contains(config_url, Placeholder) THEN config_url
    ELSE IF is_running_in_docker(env) THEN config_url
    ELSE Replace(config_url, Placeholder, Loopback)

default_url == <<"http", "://", Placeholder, ":", "4000", "/", "events">>

\* A configured URL that names another host, and a text that is no URL.
OtherUrl == <<"http", "://", "obs.example", ":", "4000", "/", "events">>
BadUrl == <<"not-a-url">>
NoUrl == <<>>

\* The address of a server without a path, as the TTS hooks write it.
BaseUrl(host) == <<"http", "://", host, ":", "4000">>

----------------------------------------------------------------------------
\* Configuration: the file and the value json.load gives for it

FeatureKeys ==
    {"summarize", "tts_notifications", "chat_transcript", "completion_announcements"}

\* A key of a JSON object: absent, or present with a boolean value.
Tri == {"absent", "true", "false"}

NoFeatures == [k \in FeatureKeys |-> "absent"]
AllFeatures == [k \in FeatureKeys |-> "true"]

\* The value under "features": absent, null (no mapping), or a mapping.
FeaturesValues ==
    [kind : {"absent", "null"}, m : {NoFeatures}]
        \cup [kind : {"map"}, m : [FeatureKeys -> Tri]]

\* A hooks-config.json: missing, not JSON, JSON that is no object, or an
\* object with any subset of the keys the hooks read.
ObjectFiles ==
    [kind : {"object"}, source_app : {"absent", "my-app"},
     project_name : {"absent", "my-project"},
     server_url : {NoUrl, default_url, OtherUrl, BadUrl},
     features : FeaturesValues]

OtherFile(kind) ==
    [kind |-> kind, source_app |-> "absent", project_name |-> "absent",
     server_url |-> NoUrl, features |-> [kind |-> "absent", m |-> NoFeatures]]

ConfigFiles ==
    ObjectFiles \cup {OtherFile(k) : k \in {"missing", "unparseable", "list", "scalar"}}

\* The built-in default of send_event.py load_config.
DefaultConfig(env) ==
    [kind |-> "dict", source_app |-> "unknown-project",
     server_url |-> get_smart_server_url(default_url, env),
     features |-> [kind |-> "map", m |-> AllFeatures]]

\* send_event.py load_config: the loaded value, or the exception it raises.
\* json.load gives a list or a scalar for JSON that is no object; the test
\* 'server_url' in config raises TypeError on a scalar.
load_config(file, env) ==
    CASE file.kind = "missing" -> [raised |-> "none", value |-> DefaultConfig(env)]
      [] file.kind = "unparseable" -> [raised |-> "none", value |-> DefaultConfig(env)]
      [] file.kind = "scalar" -> [raised |-> "TypeError@80", value |-> DefaultConfig(env)]
      [] file.kind = "list" ->
            [raised |-> "none",
             value |-> [kind |-> "list", source_app |-> "absent",
                        project_name |-> "absent", server_url |-> NoUrl,
                        features |-> [kind |-> "absent", m |-> NoFeatures]]]
      [] OTHER ->
            [raised |-> "none",
             value |-> [kind |-> "dict", source_app |-> file.source_app,
                        project_name |-> file.project_name,
                        server_url |->
                            IF file.server_url # NoUrl
                            THEN get_smart_server_url(file.server_url, env)
                            ELSE NoUrl,
                        features |-> file.features]]

\* send_event_universal.py load_config: {} when the file is missing or json.load
\* raises, else whatever json.load gives.
load_config_universal(file) ==
    CASE file.kind \in {"missing", "unparseable"} ->
            [kind |-> "dict", source_app |-> "absent", project_name |-> "absent",
             server_url |-> NoUrl, features |-> [kind |-> "absent", m |-> NoFeatures]]
      [] file.kind \in {"list", "scalar"} ->
            [kind |-> file.kind, source_app |-> "absent", project_name |-> "absent",
             server_url |-> NoUrl, features |-> [kind |-> "absent", m |-> NoFeatures]]
      [] OTHER ->
            [kind |-> "dict", source_app |-> file.source_app,
             project_name |-> file.project_name,
             server_url |-> file.server_url, features |-> file.features]

\* features.get(key, True) of send_event.py main, on a mapping
FeatureOrTrue(features, key) ==
    IF features.kind = "absent" THEN TRUE
    ELSE features.m[key] # "false"

\* config.get('features', {}).get(key) of send_event_universal.py: truthy or not
FeatureOrNone(features, key) ==
    IF features.kind = "absent" THEN FALSE
    ELSE features.m[key] = "true"

----------------------------------------------------------------------------
\* send_event_universal.py: environment and server URL

detect_environment(env) ==
    IF env.dockerenv \/ env.containerenv THEN "container"
    ELSE IF env.workspace THEN "container"
    ELSE IF env.win32 THEN "windows"
    ELSE IF env.microsoft THEN "wsl"
    ELSE "unix"

\* universal_hook_wrapper.py detect_environment
wrapper_detect_environment(env) ==
    IF env.dockerenv THEN "docker"
    ELSE IF env.containerenv THEN "container"
    ELSE IF env.kubernetes THEN "kubernetes"
    ELSE IF env.microsoft THEN (IF env.workspace THEN "devcontainer" ELSE "wsl")
    ELSE IF env.win32 THEN "windows"
    ELSE "unknown"

\* ip.startswith('127.')
IsLoopbackIp(ip) == ip = "127.0.0.53"

HostUrl(host) == <<"http", "://", host, ":", "4000", "/", "events">>

get_server_url(env) ==
    IF env.obs_url # <<>> THEN env.obs_url
    ELSE IF detect_environment(env) = "container" THEN HostUrl(Placeholder)
    ELSE IF detect_environment(env) = "wsl"
         THEN IF env.nameserver # "none" /\ ~IsLoopbackIp(env.nameserver)
              THEN HostUrl(env.nameserver)
              ELSE HostUrl(Placeholder)
    ELSE HostUrl(Loopback)

----------------------------------------------------------------------------
\* Hook input and transcript

\* Standard input: text that is no JSON, JSON that is no object, or an object
\* with or without session_id, transcript_path and message.
GenericMessage == "Claude is waiting for your input"

Stdins ==
    [kind : {"object"}, session_id : {"absent", "sess-1"}, transcript_path : BOOLEAN,
     message : {"absent"}]
        \cup [kind : {"malformed", "nonobject"}, session_id : {"absent"},
              transcript_path : {FALSE}, message : {"absent"}]

NotificationStdins ==
    [kind : {"object"}, session_id : {"absent", "sess-1"}, transcript_path : {FALSE},
     message : {"absent", GenericMessage, "Permission needed"}]
        \cup [kind : {"malformed", "nonobject"}, session_id : {"absent"},
              transcript_path : {FALSE}, message : {"absent"}]

\* A transcript line: a JSON record, text that is no JSON, a line of
\* whitespace, or bytes that are no text in the locale's encoding.
JsonLines == {"j1", "j2"}
Lines == JsonLines \cup {"bad", "blank", "binary"}

\* json.loads of a line that parses
Parsed(line) == [record |-> line]

\* line.strip() is empty
IsBlank(line) == line = "blank"

\* The loop of lines 177-183: blank lines and lines json.loads rejects are
\* skipped.
RECURSIVE chat_loop(_, _)
chat_loop(lines, chat_data) ==
    IF lines = <<>> THEN chat_data
    ELSE LET line == Head(lines) IN
         IF IsBlank(line) THEN chat_loop(Tail(lines), chat_data)
         ELSE IF line \in JsonLines
              THEN chat_loop(Tail(lines), Append(chat_data, Parsed(line)))
              ELSE chat_loop(Tail(lines), chat_data)

\* Lines 172-188 of send_event.py main. Opening an unreadable file raises
\* IOError, and reading bytes that do not decode raises UnicodeDecodeError from
\* the file iterator; both reach the handler of line 187, which leaves the
\* event without chat.
read_chat(file) ==
    IF ~file.exists THEN [attached |-> FALSE, chat |-> <<>>]
    ELSE IF ~file.readable THEN [attached |-> FALSE, chat |-> <<>>]
    ELSE IF Contains(file.lines, "binary") THEN [attached |-> FALSE, chat |-> <<>>]
    ELSE [attached |-> TRUE, chat |-> chat_loop(file.lines, <<>>)]

SeqsUpTo(S, n) == UNION {[1..k -> S] : k \in 0..n}

NoTranscript == [exists |-> FALSE, readable |-> FALSE, lines |-> <<>>]

Transcripts ==
    {NoTranscript}
        \cup [exists : {TRUE}, readable : {TRUE}, lines : SeqsUpTo(Lines, MaxLines)]
        \cup {[exists |-> TRUE, readable |-> FALSE, lines |-> <<"j1">>]}

----------------------------------------------------------------------------
\* One hook invocation

\* The timeouts the code passes to its blocking calls, in seconds.
DeliveryTimeout == 5
UniversalDeliveryTimeout == 2
ChildTimeout == 5

IntentFlags == {"summarize", "notify", "announce"}

\* The feature that gates each intent.
FeatureOf(intent) ==
    CASE intent = "summarize" -> "summarize"
      [] intent = "notify" -> "tts_notifications"
      [] intent = "announce" -> "completion_announcements"

\* What the server does with a request: answer with a status, refuse the
\* connection, or never answer.
Statuses == {"200", "204", "500"}
NetOutcomes == Statuses \cup {"refused", "silent"}

NoConfig ==
    [kind |-> "none", source_app |-> "absent", project_name |-> "absent",
     server_url |-> NoUrl, features |-> [kind |-> "absent", m |-> NoFeatures]]
NoArgs == [source_app |-> "absent", server_url |-> NoUrl]
EmptyObject ==
    [kind |-> "object", session_id |-> "absent", transcript_path |-> FALSE,
     message |-> "absent"]
NoEvent ==
    [source_app |-> "absent", session_id |-> "absent", hook_event_type |-> "absent",
     payload |-> [input |-> EmptyObject, added |-> {}],
     has_chat |-> FALSE, chat |-> <<>>, intents |-> {}]
NoRequest == [url |-> NoUrl, params |-> {}, body |-> NoEvent]

VARIABLES
    inp,          \* what the invocation is given: hook, files, arguments, input
    pc,           \* position of the hook script (the child, under the wrapper)
    wpc,          \* position of safe_send_event.py, "none" without wrapper
    config,       \* the loaded configuration
    args,         \* argparse's result for the options that have defaults
    event_data,   \* the event being built
    request,      \* the HTTP request issued
    posts,        \* number of HTTP POSTs issued
    net,          \* what the server does with the request in flight
    result,       \* what send_event_to_server returned
    exit_code,    \* exit status of the hook script, -1 while it runs
    wexit,        \* exit status of the wrapper, -1 while it runs
    fault,        \* the unhandled exception that ended the script
    blocked,      \* seconds spent in calls that ran into their timeout
    session_file, \* content of the .session_id file
    log,          \* content of the session's notification.json
    tts,          \* the speech attempts made, in order
    cand,         \* the server candidates still to probe
    child,        \* what the local TTS child process does
    stdout,       \* what pre_tool_use_safe.py wrote to standard output
    install,      \* the locals of install.py main and the files it wrote
    writers,      \* the notification hooks that run at the same time
    call          \* a function applied on its own: arguments and result

\* The state of the notification hooks.
notifVars == <<log, tts, cand, child>>

\* The state of the event senders.
senderVars == <<wpc, config, args, event_data, request, posts, result, wexit,
                session_file>>

\* The state of one hook invocation.
hookVars == <<call, inp, pc, wpc, config, args, event_data, request, posts, net,
              result, exit_code, wexit, fault, blocked, session_file, log, tts, cand,
              child, stdout>>

vars == <<hookVars, install, writers>>

\* No installer and no second hook runs.
NoInstall == [pc |-> "none"]
NoWriters == <<>>

\* The script that runs: safe_send_event.py runs send_event.py as its child.
prog == IF inp.hook = "safe_send_event" THEN "send_event" ELSE inp.hook

----------------------------------------------------------------------------
\* Inputs

Argvs ==
    [summarize : BOOLEAN, notify : BOOLEAN, announce : BOOLEAN, add_chat : BOOLEAN,
     source_app : {"absent", "cli-app"}, server_url : {NoUrl, OtherUrl},
     event_type : {"Stop"}]

PlainArgv ==
    [summarize |-> FALSE, notify |-> FALSE, announce |-> FALSE, add_chat |-> FALSE,
     source_app |-> "absent", server_url |-> NoUrl, event_type |-> "Stop"]

DockerHost == [BareHost EXCEPT !.dockerenv = TRUE]

\* What the hooks find installed: send_event.py beside safe_send_event.py, uv
\* on the PATH, and the scripts of the local TTS engines under utils/tts.
AllTools ==
    [script |-> TRUE, uv |-> TRUE, elevenlabs_tts |-> TRUE, openai_tts |-> TRUE,
     pyttsx3_tts |-> TRUE]
ToolsOf(hook) ==
    IF hook = "safe_send_event"
    THEN {[AllTools EXCEPT !.script = a, !.uv = b] : a \in BOOLEAN, b \in BOOLEAN}
    ELSE {AllTools}

SenderHooks == {"send_event", "send_event_universal", "safe_send_event"}

GoodStdin ==
    [kind |-> "object", session_id |-> "sess-1", transcript_path |-> FALSE,
     message |-> "absent"]
FullConfig(features) ==
    [kind |-> "object", source_app |-> "my-app", project_name |-> "absent",
     server_url |-> default_url, features |-> features]

Input(hook, cfgFile, argv, stdin, transcript, env, tools) ==
    [hook |-> hook, cfgFile |-> cfgFile, argv |-> argv, stdin |-> stdin,
     transcript |-> transcript, env |-> env, tools |-> tools,
     session_file |-> "none", log |-> [kind |-> "missing", events |-> <<>>]]

\* Every features value against every combination of the intent flags.
FeatureInputs ==
    {Input(h, FullConfig(f), a, GoodStdin, NoTranscript, BareHost, AllTools) :
        h \in SenderHooks, f \in FeaturesValues,
        a \in {x \in Argvs : ~x.add_chat /\ x.source_app = "absent"
                                /\ x.server_url = NoUrl}}

\* The configuration files without project_name whose features are absent,
\* null or all enabled.
FileConfigs ==
    {x \in ConfigFiles :
        /\ x.project_name = "absent"
        /\ x.features.kind # "map" \/ x.features.m = AllFeatures}

\* Every kind of configuration file and of standard input, with and without
\* the wrapper's dependencies.
FileInputs ==
    UNION {{Input(h, c, a, i, NoTranscript, e, t) :
                c \in FileConfigs,
                a \in {x \in Argvs :
                          /\ x.summarize = x.notify /\ x.notify = x.announce
                          /\ ~x.add_chat
                          /\ (x.source_app = "absent") = (x.server_url = NoUrl)},
                i \in Stdins, e \in {BareHost, DockerHost}, t \in ToolsOf(h)} :
           h \in SenderHooks}

\* Every application name a configuration file can give, against the
\* --source-app override, for every input.
NameInputs ==
    {Input(h, c, [PlainArgv EXCEPT !.source_app = sa], i, NoTranscript, BareHost,
           AllTools) :
        h \in {"send_event", "send_event_universal"},
        c \in {x \in ConfigFiles :
                  /\ x.kind = "object"
                  /\ x.server_url = default_url
                  /\ x.features.kind = "absent"},
        sa \in {"absent", "cli-app"}, i \in Stdins}

\* Every transcript, with chat requested or not.
ChatInputs ==
    {Input("send_event", c, [PlainArgv EXCEPT !.add_chat = ac],
           [GoodStdin EXCEPT !.transcript_path = tp], t, BareHost, AllTools) :
        c \in {OtherFile("missing"), FullConfig([kind |-> "absent", m |-> NoFeatures])},
        ac \in BOOLEAN, tp \in BOOLEAN, t \in Transcripts}

\* Chat requested or not, against every value the configuration gives the
\* chat_transcript feature, with and without a transcript to read.
ChatFeatureInputs ==
    {Input(h, FullConfig(f), [PlainArgv EXCEPT !.add_chat = ac],
           [GoodStdin EXCEPT !.transcript_path = tp], t, BareHost, AllTools) :
        h \in {"send_event", "safe_send_event"},
        f \in {[kind |-> "null", m |-> NoFeatures]}
                 \cup {[kind |-> "map", m |-> [NoFeatures EXCEPT !.chat_transcript = v]] :
                          v \in Tri},
        ac \in BOOLEAN, tp \in BOOLEAN,
        t \in {NoTranscript,
               [exists |-> TRUE, readable |-> TRUE, lines |-> <<"j1">>],
               [exists |-> TRUE, readable |-> FALSE, lines |-> <<"j1">>]}}

\* The hooks that log a notification and speak it.
NotificationHooks == {"notification", "notification_server_tts"}

NotifyArgv(notify) == [PlainArgv EXCEPT !.notify = notify]

PriorLogs ==
    {[kind |-> "missing", events |-> <<>>], [kind |-> "corrupt", events |-> <<>>],
     [kind |-> "notlist", events |-> <<>>], [kind |-> "list", events |-> <<>>],
     [kind |-> "list", events |-> <<[GoodStdin EXCEPT !.message = "Build done"]>>]}

\* Every input and every stored log of the notification hooks.
LogInputs ==
    {[Input(h, OtherFile("missing"), NotifyArgv(n), i, NoTranscript, BareHost, AllTools)
        EXCEPT !.log = l] :
        h \in NotificationHooks, n \in BOOLEAN, i \in NotificationStdins, l \in PriorLogs}

\* Every combination of credentials and installed TTS scripts, with and
\* without the server override.
SpeechInputs ==
    {Input(h, OtherFile("missing"), NotifyArgv(TRUE),
           [GoodStdin EXCEPT !.message = "Permission needed"], NoTranscript,
           [BareHost EXCEPT !.elevenlabs_key = ek, !.openai_key = ok, !.obs_url = ou],
           [AllTools EXCEPT !.elevenlabs_tts = es, !.openai_tts = os,
                            !.pyttsx3_tts = ps, !.uv = uv]) :
        h \in NotificationHooks, ek \in BOOLEAN, ok \in BOOLEAN,
        ou \in {<<>>, BaseUrl("obs.example")},
        es \in BOOLEAN, os \in BOOLEAN, ps \in BOOLEAN, uv \in BOOLEAN}

Inputs ==
    FeatureInputs \cup FileInputs \cup NameInputs \cup ChatInputs
        \cup ChatFeatureInputs \cup LogInputs \cup SpeechInputs

NoCall == [fn |-> "none"]

Init ==
    /\ call = NoCall
    /\ inp \in Inputs
    /\ pc = IF inp.hook = "safe_send_event" THEN "notrun" ELSE "start"
    /\ wpc = IF inp.hook = "safe_send_event" THEN "start" ELSE "none"
    /\ config = NoConfig
    /\ args = NoArgs
    /\ event_data = NoEvent
    /\ request = NoRequest
    /\ posts = 0
    /\ net = "none"
    /\ result = "none"
    /\ exit_code = -1
    /\ wexit = -1
    /\ fault = "none"
    /\ blocked = 0
    /\ session_file = inp.session_file
    /\ log = inp.log
    /\ tts = <<>>
    /\ cand = <<>>
    /\ child = "none"
    /\ stdout = "none"
    /\ install = NoInstall
    /\ writers = NoWriters

----------------------------------------------------------------------------
\* send_event.py

\* An exception nobody handles: traceback, exit status 1. The exception is
\* named with the line that raises it.
Crash(exception) ==
    /\ pc' = "exited"
    /\ exit_code' = 1
    /\ fault' = exception

\* urllib.request.Request accepts the text as a URL.
IsUrl(url) == Len(url) > 1 /\ url[2] = "://"

\* A sender that trusts the flags alone.
IntentsOfFlagsAlone(argv, features) ==
    {i \in IntentFlags : argv[i]}

\* Lines 192-194: an intent is sent when its flag is given and the feature is
\* not disabled.
Intents(argv, features) ==
    {i \in IntentFlags : argv[i] /\ FeatureOrTrue(features, FeatureOf(i))}

\* Lines 100-110: the intents become query parameters.
Params(intents) == intents

\* A delivery made without a timeout.
delivery_without_timeout(program) == -1

\* The timeout of the delivery's urlopen; negative stands for none.
delivery_timeout(program) ==
    IF program = "send_event" THEN DeliveryTimeout ELSE UniversalDeliveryTimeout

\* Line 139: main calls load_config.
main_load_config ==
    /\ prog = "send_event"
    /\ pc = "start"
    /\ LET r == load_config(inp.cfgFile, inp.env) IN
         IF r.raised # "none"
         THEN Crash(r.raised) /\ UNCHANGED config
         ELSE /\ config' = r.value
              /\ pc' = "config_loaded"
              /\ UNCHANGED <<exit_code, fault>>
    /\ UNCHANGED <<install, writers, stdout, notifVars, call, inp, wpc, args, event_data, request, posts, net, result, wexit,
                   blocked, session_file>>

\* Lines 142-151: the parser's defaults read config['source_app'] and
\* config['server_url'].
main_parse_args ==
    /\ prog = "send_event"
    /\ pc = "config_loaded"
    /\ IF config.kind # "dict"
       THEN Crash("TypeError@143") /\ UNCHANGED args
       ELSE IF config.source_app = "absent"
       THEN Crash("KeyError@143") /\ UNCHANGED args
       ELSE IF config.server_url = NoUrl
       THEN Crash("KeyError@145") /\ UNCHANGED args
       ELSE /\ args' = [source_app |-> IF inp.argv.source_app # "absent"
                                       THEN inp.argv.source_app
                                       ELSE config.source_app,
                        server_url |-> IF inp.argv.server_url # NoUrl
                                       THEN inp.argv.server_url
                                       ELSE config.server_url]
            /\ pc' = "args_parsed"
            /\ UNCHANGED <<exit_code, fault>>
    /\ UNCHANGED <<install, writers, stdout, notifVars, call, inp, wpc, config, event_data, request, posts, net, result, wexit,
                   blocked, session_file>>

\* Lines 153-158: json.load(sys.stdin); on JSONDecodeError sys.exit(1).
main_read_stdin ==
    /\ prog = "send_event"
    /\ pc = "args_parsed"
    /\ IF inp.stdin.kind = "malformed"
       THEN pc' = "exited" /\ exit_code' = 1
       ELSE pc' = "stdin_read" /\ UNCHANGED exit_code
    /\ UNCHANGED <<install, writers, stdout, notifVars, call, inp, wpc, config, args, event_data, request, posts, net, result,
                   wexit, fault, blocked, session_file>>

\* Lines 160-188: the event, and the chat when --add-chat is given and the
\* input names a transcript.
main_build_event ==
    /\ prog = "send_event"
    /\ pc = "stdin_read"
    /\ IF inp.stdin.kind # "object"
       THEN Crash("AttributeError@163") /\ UNCHANGED event_data
       ELSE LET chat == IF inp.argv.add_chat /\ inp.stdin.transcript_path
                        THEN read_chat(inp.transcript)
                        ELSE [attached |-> FALSE, chat |-> <<>>]
            IN /\ event_data' =
                    [source_app |-> args.source_app,
                     session_id |-> IF inp.stdin.session_id = "absent"
                                    THEN "unknown" ELSE inp.stdin.session_id,
                     hook_event_type |-> inp.argv.event_type,
                     payload |-> [input |-> inp.stdin, added |-> {}],
                     has_chat |-> chat.attached,
                     chat |-> chat.chat,
                     intents |-> {}]
               /\ pc' = "event_built"
               /\ UNCHANGED <<exit_code, fault>>
    /\ UNCHANGED <<install, writers, stdout, notifVars, call, inp, wpc, config, args, request, posts, net, result, wexit,
                   blocked, session_file>>

\* Lines 190-196 and 97-123: the intents, then send_event_to_server up to the
\* request. features.get raises AttributeError when "features" is no mapping
\* and a flag makes the code read it; a text that is no URL raises ValueError
\* inside the try, which returns False.
main_send ==
    /\ prog = "send_event"
    /\ pc = "event_built"
    /\ IF config.features.kind = "null" /\ (\E i \in IntentFlags : inp.argv[i])
       THEN Crash("AttributeError@192") /\ UNCHANGED <<request, posts, net, result>>
       ELSE IF ~IsUrl(args.server_url)
       THEN /\ result' = "False"
            /\ pc' = "exited"
            /\ exit_code' = 0
            /\ UNCHANGED <<request, posts, net, fault>>
       ELSE /\ request' = [url |-> args.server_url,
                           params |-> Params(Intents(inp.argv, config.features)),
                           body |-> event_data]
            /\ posts' = posts + 1
            /\ net' \in NetOutcomes
            /\ pc' = "posting"
            /\ UNCHANGED <<result, exit_code, fault>>
    /\ UNCHANGED <<install, writers, stdout, notifVars, call, inp, wpc, config, args, event_data, wexit, blocked, session_file>>

----------------------------------------------------------------------------
\* send_event_universal.py

\* Lines 80-105: CLAUDE_SESSION_ID, else the .session_id file, else a new id
\* from the clock, which is saved to the file.
NewSessionId == "20261101_083700"

get_session_id(env, file) ==
    IF env.claude_session_id # "none" THEN env.claude_session_id
    ELSE IF file # "none" THEN file
    ELSE NewSessionId

session_file_after(env, file) ==
    IF env.claude_session_id = "none" /\ file = "none" THEN NewSessionId ELSE file

\* Lines 124-129: an intent is sent when its flag is given and the feature is
\* set and true.
IntentsUniversal(argv, features) ==
    {i \in IntentFlags : argv[i] /\ FeatureOrNone(features, FeatureOf(i))}

\* Lines 162-175: standard input that is no JSON becomes {}; the event type
\* and the --source-app override are stored in the input. The assignment
\* raises TypeError when the input is no object.
universal_read_stdin ==
    /\ prog = "send_event_universal"
    /\ pc = "start"
    /\ IF inp.stdin.kind = "nonobject"
       THEN Crash("TypeError@171") /\ UNCHANGED event_data
       ELSE /\ event_data' =
                 [NoEvent EXCEPT
                    !.payload =
                        [input |-> IF inp.stdin.kind = "malformed"
                                   THEN EmptyObject ELSE inp.stdin,
                         added |-> {"hook_event_type"} \cup
                                   IF inp.argv.source_app # "absent"
                                   THEN {"source_app"} ELSE {}]]
            /\ pc' = "stdin_read"
            /\ UNCHANGED <<exit_code, fault>>
    /\ UNCHANGED <<install, writers, stdout, notifVars, call, inp, wpc, config, args, request, posts, net, result, wexit,
                   blocked, session_file>>

\* Lines 107-139: send_event_to_server up to the request. config.get raises
\* AttributeError when the configuration is no object, and the features'
\* .get when "features" is no mapping and a flag makes the code read it; both
\* are outside the try.
universal_send ==
    /\ prog = "send_event_universal"
    /\ pc = "stdin_read"
    /\ LET server_url == IF inp.argv.server_url # NoUrl
                         THEN inp.argv.server_url ELSE get_server_url(inp.env)
           loaded == load_config_universal(inp.cfgFile)
           event == [event_data EXCEPT
                        !.source_app = IF loaded.kind = "dict"
                                            /\ loaded.project_name # "absent"
                                       THEN loaded.project_name ELSE "unknown",
                        !.session_id = get_session_id(inp.env, session_file),
                        !.hook_event_type = inp.argv.event_type,
                        !.intents = IntentsUniversal(inp.argv, loaded.features)]
       IN /\ config' = loaded
          /\ IF loaded.kind # "dict"
             THEN /\ Crash("AttributeError@116")
                  /\ result' = "raised"
                  /\ UNCHANGED <<event_data, request, posts, net, session_file>>
             ELSE IF loaded.features.kind = "null"
                     /\ (\E i \in IntentFlags : inp.argv[i])
             THEN /\ Crash("AttributeError@124")
                  /\ result' = "raised"
                  /\ session_file' = session_file_after(inp.env, session_file)
                  /\ UNCHANGED <<event_data, request, posts, net>>
             ELSE IF ~IsUrl(server_url)
             THEN /\ result' = "False"
                  /\ pc' = "exited"
                  /\ exit_code' = 0
                  /\ event_data' = event
                  /\ session_file' = session_file_after(inp.env, session_file)
                  /\ UNCHANGED <<request, posts, net, fault>>
             ELSE /\ event_data' = event
                  /\ session_file' = session_file_after(inp.env, session_file)
                  /\ request' = [url |-> server_url, params |-> {}, body |-> event]
                  /\ posts' = posts + 1
                  /\ net' \in NetOutcomes
                  /\ pc' = "posting"
                  /\ UNCHANGED <<result, exit_code, fault>>
    /\ UNCHANGED <<install, writers, stdout, notifVars, call, inp, wpc, args, wexit, blocked>>

----------------------------------------------------------------------------
\* The request in flight (send_event.py lines 123-135, send_event_universal.py
\* lines 139-149) and the end of main

\* A main that sends again when the delivery failed.
after_send_retrying(success) ==
    IF success = "False" THEN "event_built" ELSE "exited"

\* Where main goes once send_event_to_server has returned: the result is not
\* looked at, the script exits.
after_send(success) == "exited"

Returned(value) ==
    /\ result' = value
    /\ pc' = after_send(value)
    /\ exit_code' = IF after_send(value) = "exited" THEN 0 ELSE exit_code
    /\ UNCHANGED <<install, writers, stdout, notifVars, call, inp, wpc, config, args, event_data, request, posts, wexit,
                   fault, session_file>>

\* The server answers: 200 is success; another 2xx status is reported and
\* fails; urlopen raises HTTPError, a URLError, for the others.
server_answers ==
    /\ pc = "posting"
    /\ net \in Statuses
    /\ Returned(IF net = "200" THEN "True" ELSE "False")
    /\ UNCHANGED <<net, blocked>>

\* The connection is refused: URLError.
connection_refused ==
    /\ pc = "posting"
    /\ net = "refused"
    /\ Returned("False")
    /\ UNCHANGED <<net, blocked>>

\* No answer within the timeout: urlopen raises, the handlers return False.
delivery_times_out ==
    /\ pc = "posting"
    /\ net = "silent"
    /\ delivery_timeout(prog) >= 0
    /\ Returned("False")
    /\ blocked' = blocked + delivery_timeout(prog)
    /\ UNCHANGED net

----------------------------------------------------------------------------
\* safe_send_event.py

\* A wrapper that reports its dependency failures.
safe_exit_status_strict(outcome, returncode) ==
    IF outcome = "returned" THEN returncode ELSE 1

\* Lines 30-32 and 47-57: the child's exit status when it ended, 0 when
\* send_event.py is missing, uv is not found or the child timed out.
safe_exit_status(outcome, returncode) ==
    IF outcome = "returned" THEN returncode ELSE 0

\* Lines 21-44: exit 0 when send_event.py is missing; subprocess.run raises
\* FileNotFoundError when uv is missing, and the handler exits 0.
safe_start ==
    /\ inp.hook = "safe_send_event"
    /\ wpc = "start"
    /\ IF inp.tools.script /\ inp.tools.uv
       THEN wpc' = "waiting" /\ pc' = "start" /\ UNCHANGED wexit
       ELSE /\ wpc' = "exited"
            /\ wexit' = safe_exit_status(IF inp.tools.script THEN "notfound"
                                          ELSE "missing", exit_code)
            /\ UNCHANGED pc
    /\ UNCHANGED <<install, writers, stdout, notifVars, call, inp, config, args, event_data, request, posts, net, result,
                   exit_code, fault, blocked, session_file>>

\* Line 47: the child's exit status is passed through.
safe_child_exits ==
    /\ wpc = "waiting"
    /\ pc = "exited"
    /\ wpc' = "exited"
    /\ wexit' = safe_exit_status("returned", exit_code)
    /\ UNCHANGED <<install, writers, stdout, notifVars, call, inp, pc, config, args, event_data, request, posts, net, result,
                   exit_code, fault, blocked, session_file>>

\* Lines 43 and 52-54: the child has not ended after the timeout; it is
\* killed and the wrapper exits 0.
safe_child_times_out ==
    /\ wpc = "waiting"
    /\ pc \notin {"exited", "killed"}
    /\ ChildTimeout >= 0
    /\ pc' = "killed"
    /\ wpc' = "exited"
    /\ wexit' = safe_exit_status("timeout", exit_code)
    /\ blocked' = ChildTimeout
    /\ UNCHANGED <<install, writers, stdout, notifVars, call, inp, config, args, event_data, request, posts, net, result,
                   exit_code, fault, session_file>>

----------------------------------------------------------------------------
\* notification.py and notification_server_tts.py

\* The timeouts the code passes to its blocking calls, in seconds.
TtsRequestTimeout == 10
LocalTtsTimeout == 10
ProbeTimeout == 1
TtsPostTimeout == 2

\* sys.exit(0)
Exit0 ==
    /\ pc' = "exited"
    /\ exit_code' = 0

\* A hook that starts a new log at every invocation.
append_log_overwriting(file, input_data) ==
    [raised |-> FALSE, log |-> [kind |-> "list", events |-> <<input_data>>]]

\* notification.py lines 117-127: the stored list, or an empty one when the
\* file is missing or is no JSON, with the input appended. Stored JSON that is
\* no list has no append: AttributeError.
append_log(file, input_data) ==
    CASE file.kind \in {"missing", "corrupt"} ->
            [raised |-> FALSE, log |-> [kind |-> "list", events |-> <<input_data>>]]
      [] file.kind = "notlist" -> [raised |-> TRUE, log |-> file]
      [] OTHER ->
            [raised |-> FALSE,
             log |-> [kind |-> "list", events |-> Append(file.events, input_data)]]

\* A hook that speaks every message when --notify is given.
wants_tts_for_any_message(argv, input_data) == argv.notify

\* notification.py line 135, notification_server_tts.py line 120
wants_tts(argv, input_data) ==
    argv.notify /\ input_data.message # GenericMessage

\* A fallback that knows the two remote engines only.
local_engine_without_offline(env, tools) ==
    IF env.elevenlabs_key
    THEN IF tools.elevenlabs_tts THEN "elevenlabs" ELSE "none"
    ELSE IF env.openai_key
    THEN IF tools.openai_tts THEN "openai" ELSE "none"
    ELSE "none"

\* notification.py lines 57-69: the script of the engine whose credential is
\* set, when it exists.
local_engine(env, tools) ==
    IF env.elevenlabs_key
    THEN IF tools.elevenlabs_tts THEN "elevenlabs" ELSE "none"
    ELSE IF env.openai_key
    THEN IF tools.openai_tts THEN "openai" ELSE "none"
    ELSE IF tools.pyttsx3_tts THEN "pyttsx3" ELSE "none"

\* What a child process can do: end with status 0, end with another status,
\* or not end.
ChildOutcomes == {"ok", "fails", "hangs"}

\* notification.py lines 100-131 (notification_server_tts.py lines 85-116):
\* the input is appended to the session's log. Input that is no JSON object
\* and a stored log that is no list raise inside the try of main, whose
\* handlers exit 0.
notification_log ==
    /\ inp.hook \in NotificationHooks
    /\ pc = "start"
    /\ IF inp.stdin.kind # "object"
       THEN Exit0 /\ UNCHANGED log
       ELSE LET r == append_log(log, inp.stdin) IN
            IF r.raised
            THEN Exit0 /\ UNCHANGED log
            ELSE log' = r.log /\ pc' = "logged" /\ UNCHANGED exit_code
    /\ UNCHANGED <<install, writers, stdout, senderVars, tts, cand, child, call, inp, net, fault, blocked>>

\* notification.py lines 135-138 and 27-41: the server-side TTS request.
notification_announce ==
    /\ inp.hook = "notification"
    /\ pc = "logged"
    /\ IF wants_tts(inp.argv, inp.stdin)
       THEN /\ tts' = Append(tts, "server")
            /\ net' \in NetOutcomes
            /\ pc' = "tts_request"
            /\ UNCHANGED exit_code
       ELSE Exit0 /\ UNCHANGED <<tts, net>>
    /\ UNCHANGED <<install, writers, stdout, senderVars, log, cand, child, call, inp, fault, blocked>>

\* notification.py lines 49-96 and 138: the local engine's script is run
\* with uv; without a script nothing is run; without uv subprocess.run
\* raises FileNotFoundError, which is swallowed. tts records the call of the
\* function ("local") and then the engine whose script is run.
announce_notification_local ==
    LET engine == local_engine(inp.env, inp.tools) IN
    IF engine = "none"
    THEN Exit0 /\ tts' = Append(tts, "local") /\ UNCHANGED child
    ELSE IF ~inp.tools.uv
    THEN Exit0 /\ tts' = tts \o <<"local", engine>> /\ child' = "nospawn"
    ELSE /\ tts' = tts \o <<"local", engine>>
         /\ child' \in ChildOutcomes
         /\ pc' = "local_tts"
         /\ UNCHANGED exit_code

\* notification.py lines 41-46: status 200 returns; another 2xx status
\* leaves the with block and returns too; HTTPError and URLError are caught
\* and the local fallback runs.
tts_request_ends ==
    /\ pc = "tts_request"
    /\ net \in Statuses \cup {"refused"}
    /\ IF net \in {"200", "204"}
       THEN Exit0 /\ UNCHANGED <<tts, child>>
       ELSE announce_notification_local
    /\ UNCHANGED <<install, writers, stdout, senderVars, log, cand, call, inp, net, fault, blocked>>

tts_request_times_out ==
    /\ pc = "tts_request"
    /\ net = "silent"
    /\ TtsRequestTimeout >= 0
    /\ blocked' = blocked + TtsRequestTimeout
    /\ announce_notification_local
    /\ UNCHANGED <<install, writers, stdout, senderVars, log, cand, call, inp, net, fault>>

\* notification.py lines 84-96: the child ends, with whatever status.
local_tts_ends ==
    /\ pc = "local_tts"
    /\ child \in {"ok", "fails"}
    /\ Exit0
    /\ UNCHANGED <<install, writers, stdout, senderVars, notifVars, call, inp, net, fault, blocked>>

\* notification.py lines 88 and 91: TimeoutExpired after the timeout.
local_tts_times_out ==
    /\ pc = "local_tts"
    /\ child = "hangs"
    /\ LocalTtsTimeout >= 0
    /\ blocked' = blocked + LocalTtsTimeout
    /\ Exit0
    /\ UNCHANGED <<install, writers, stdout, senderVars, notifVars, call, inp, net, fault>>

\* notification_server_tts.py lines 35-42: the servers to try.
server_candidates(env) ==
    (IF env.obs_url # <<>> THEN <<env.obs_url>> ELSE <<>>)
        \o <<BaseUrl(Loopback), BaseUrl(Placeholder)>>

ProbeOutcomes == NetOutcomes \cup {"404"}

\* notification_server_tts.py lines 120-123 and 31-49: the first probe.
server_tts_start ==
    /\ inp.hook = "notification_server_tts"
    /\ pc = "logged"
    /\ IF wants_tts(inp.argv, inp.stdin)
       THEN /\ cand' = server_candidates(inp.env)
            /\ tts' = Append(tts, "probe")
            /\ net' \in ProbeOutcomes
            /\ pc' = "probing"
            /\ UNCHANGED exit_code
       ELSE Exit0 /\ UNCHANGED <<cand, net, tts>>
    /\ UNCHANGED <<install, writers, stdout, senderVars, log, child, call, inp, fault, blocked>>

\* notification_server_tts.py lines 45-57: the loop goes on to the next
\* candidate; after the last one the function returns.
next_candidate ==
    IF Len(cand) > 1
    THEN /\ cand' = Tail(cand)
         /\ tts' = Append(tts, "probe")
         /\ net' \in ProbeOutcomes
         /\ pc' = "probing"
         /\ UNCHANGED exit_code
    ELSE /\ cand' = <<>>
         /\ Exit0
         /\ UNCHANGED <<net, tts>>

\* notification_server_tts.py lines 49-66: status 200 or 404 selects the
\* server and the TTS request is posted to it; any other answer, or an
\* exception, moves on.
probe_ends ==
    /\ pc = "probing"
    /\ net \in Statuses \cup {"404", "refused"}
    /\ IF net \in {"200", "404"}
       THEN /\ tts' = Append(tts, "server")
            /\ net' \in NetOutcomes
            /\ pc' = "tts_post"
            /\ UNCHANGED <<cand, exit_code>>
       ELSE next_candidate
    /\ UNCHANGED <<install, writers, stdout, senderVars, log, child, call, inp, fault, blocked>>

probe_times_out ==
    /\ pc = "probing"
    /\ net = "silent"
    /\ ProbeTimeout >= 0
    /\ blocked' = blocked + ProbeTimeout
    /\ next_candidate
    /\ UNCHANGED <<install, writers, stdout, senderVars, log, child, call, inp, fault>>

\* notification_server_tts.py lines 60-81: whatever the answer, nothing more
\* is done.
tts_post_ends ==
    /\ pc = "tts_post"
    /\ net \in Statuses \cup {"refused"}
    /\ Exit0
    /\ UNCHANGED <<install, writers, stdout, senderVars, notifVars, call, inp, net, fault, blocked>>

tts_post_times_out ==
    /\ pc = "tts_post"
    /\ net = "silent"
    /\ TtsPostTimeout >= 0
    /\ blocked' = blocked + TtsPostTimeout
    /\ Exit0
    /\ UNCHANGED <<install, writers, stdout, senderVars, notifVars, call, inp, net, fault>>

----------------------------------------------------------------------------

Next ==
    \/ main_load_config
    \/ main_parse_args
    \/ main_read_stdin
    \/ main_build_event
    \/ main_send
    \/ universal_read_stdin
    \/ universal_send
    \/ server_answers
    \/ connection_refused
    \/ delivery_times_out
    \/ safe_start
    \/ safe_child_exits
    \/ safe_child_times_out
    \/ notification_log
    \/ notification_announce
    \/ tts_request_ends
    \/ tts_request_times_out
    \/ local_tts_ends
    \/ local_tts_times_out
    \/ server_tts_start
    \/ probe_ends
    \/ probe_times_out
    \/ tts_post_ends
    \/ tts_post_times_out

Spec == Init /\ [][Next]_vars

\* A running process takes its next step, and a timer that was set expires.
LiveSpec == Spec /\ WF_vars(Next)

\* The invocation has returned control to the host agent.
Done == IF inp.hook = "safe_send_event" THEN wpc = "exited" ELSE pc = "exited"

\* The exit status the host agent sees.
HostStatus == IF inp.hook = "safe_send_event" THEN wexit ELSE exit_code

TypeOK ==
    /\ pc \in {"notrun", "start", "config_loaded", "args_parsed", "stdin_read",
               "event_built", "posting", "exited", "killed", "logged",
               "tts_request", "local_tts", "probing", "tts_post"}
    /\ wpc \in {"none", "start", "waiting", "exited"}
    /\ posts \in Nat
    /\ net \in NetOutcomes \cup {"404", "none"}
    /\ child \in ChildOutcomes \cup {"none", "nospawn"}
    /\ blocked \in Nat
    /\ result \in {"none", "True", "False", "raised"}
    /\ exit_code \in {-1, 0, 1}
    /\ wexit \in {-1, 0, 1}

----------------------------------------------------------------------------
\* Termination and bounded blocking

\* The blocking call a process is in, and the timeout the code gave it.
Waiting == pc \in {"posting", "tts_request", "local_tts", "probing", "tts_post"}

WaitTimeout ==
    CASE pc = "posting" -> delivery_timeout(prog)
      [] pc = "tts_request" -> TtsRequestTimeout
      [] pc = "local_tts" -> LocalTtsTimeout
      [] pc = "probing" -> ProbeTimeout
      [] pc = "tts_post" -> TtsPostTimeout
      [] OTHER -> 0

\* The longest a hook can spend in calls that ran into their timeout.
MaxBlocked ==
    CASE inp.hook = "send_event" -> DeliveryTimeout
      [] inp.hook = "send_event_universal" -> UniversalDeliveryTimeout
      [] inp.hook = "safe_send_event" -> ChildTimeout
      [] inp.hook = "notification" -> TtsRequestTimeout + LocalTtsTimeout
      [] OTHER -> Len(server_candidates(inp.env)) * ProbeTimeout + TtsPostTimeout

\* C5: every hook invocation eventually exits, whatever the server and the
\* child processes do: every blocking call (the delivery, the server-side TTS
\* request, the server probes, the local TTS subprocess, the wrapped
\* send_event child) is made with a timeout, and the time a hook spends in
\* calls that timed out never exceeds the sum of the timeouts on its path.
C5_EveryHookExits ==
    /\ [](Waiting => WaitTimeout >= 0)
    /\ [](wpc = "waiting" => ChildTimeout >= 0)
    /\ [](blocked <= MaxBlocked)
    /\ <>Done

\* A notification whose server-side TTS request and whose local TTS child
\* both ran into their timeouts, and the hook has exited.
C5_Witness ==
    /\ inp.hook = "notification"
    /\ pc = "exited"
    /\ exit_code = 0
    /\ net = "silent"
    /\ child = "hangs"
    /\ blocked = TtsRequestTimeout + LocalTtsTimeout

----------------------------------------------------------------------------
\* pre_tool_use_safe.py

\* Longest command, in tokens.
MaxTokens == 3

\* A text is a sequence of characters here, so that lower(), split() and the
\* regular expressions act on it as they do in the code.
IsSpace(c) == c \in {" ", "\t"}

LowerLetters ==
    {"a", "b", "c", "d", "e", "f", "g", "h", "i", "j", "k", "l", "m", "n", "o", "p",
     "q", "r", "s", "t", "u", "v", "w", "x", "y", "z"}
Digits == {"0", "1", "2", "3", "4", "5", "6", "7", "8", "9"}

\* str.lower on the characters the commands are made of
lower(c) ==
    CASE c = "R" -> "r"
      [] c = "M" -> "m"
      [] c = "F" -> "f"
      [] OTHER -> c

\* \w of the regular expressions, on lowered text
IsWord(c) == c \in LowerLetters \cup Digits \cup {"_"}

\* Line 16: ' '.join(command.lower().split())
RECURSIVE squeeze(_, _)
squeeze(text, out) ==
    IF text = <<>> THEN out
    ELSE LET c == Head(text) IN
         IF IsSpace(c)
         THEN IF out = <<>> \/ out[Len(out)] = " "
              THEN squeeze(Tail(text), out)
              ELSE squeeze(Tail(text), Append(out, " "))
         ELSE squeeze(Tail(text), Append(out, lower(c)))

normalize(command) ==
    LET s == squeeze(command, <<>>)
    IN IF s # <<>> /\ s[Len(s)] = " " THEN SubSeq(s, 1, Len(s) - 1) ELSE s

\* Lines 18-19: re.search of \brm\s+.*-[a-z]*X[a-z]*Y, with X, Y the letters
\* r, f in one order or the other.
search(s, x, y) ==
    \E i \in 1..Len(s) :
        /\ i = 1 \/ ~IsWord(s[i - 1])
        /\ i + 2 <= Len(s)
        /\ s[i] = "r" /\ s[i + 1] = "m" /\ IsSpace(s[i + 2])
        /\ \E j \in (i + 3)..Len(s) :
              /\ s[j] = "-"
              /\ \E k \in (j + 1)..Len(s) :
                    /\ s[k] = x
                    /\ \A t \in (j + 1)..(k - 1) : s[t] \in LowerLetters
                    /\ \E l \in (k + 1)..Len(s) :
                          /\ s[l] = y
                          /\ \A t \in (k + 1)..(l - 1) : s[t] \in LowerLetters

\* Lines 14-24
is_dangerous_rm_command(command) ==
    LET normalized == normalize(command)
    IN search(normalized, "r", "f") \/ search(normalized, "f", "r")

\* The words commands are made of, and the whitespace between them.
RmTokens ==
    {<<"r", "m">>, <<"R", "M">>, <<"-", "r", "f">>, <<"-", "f", "R">>, <<"-", "r">>,
     <<"-", "f">>, <<"f", "i", "l", "e", ".", "t", "x", "t">>,
     <<"m", "y", "-", "d", "r", "a", "f", "t", ".", "t", "x", "t">>}
Separators == {<<" ">>, <<"\t", " ">>}

RECURSIVE join(_, _)
join(tokens, sep) ==
    IF Len(tokens) = 1 THEN Head(tokens)
    ELSE Head(tokens) \o sep \o join(Tail(tokens), sep)

Commands ==
    UNION {{join(t, sep) : t \in [1..n -> RmTokens], sep \in Separators} :
           n \in 1..MaxTokens}

\* The value under "command": absent, a number, or a text.
NoCommand == [kind |-> "absent", text |-> <<>>]
CommandValues ==
    {NoCommand, [kind |-> "number", text |-> <<>>]}
        \cup {[kind |-> "text", text |-> c] : c \in Commands}

RmRf == [kind |-> "text", text |-> <<"r", "m", " ", "-", "r", "f">>]

\* Standard input of the hook: no JSON, JSON that is no object, or an object
\* with or without the keys the hook reads.
ToolStdins ==
    [kind : {"malformed", "nonobject"}, tool : {"absent"}, arguments : {"absent"},
     command : {NoCommand}]
        \cup [kind : {"object"}, tool : {"Bash"}, arguments : {"map"},
              command : CommandValues]
        \cup [kind : {"object"}, tool : {"absent", "Write", "Bash"},
              arguments : {"absent", "null", "map"}, command : {NoCommand, RmRf}]

\* Every command as a Bash call on a pipe, and every shape of input on every
\* kind of standard input.
ToolInputs ==
    [hook : {"pre_tool_use_safe"}, stdin : ToolStdins, isatty : {FALSE},
     seekable : {FALSE}]
        \cup [hook : {"pre_tool_use_safe"},
              stdin : {x \in ToolStdins : x.command \in {NoCommand, RmRf}},
              isatty : BOOLEAN, seekable : BOOLEAN]

ToolInit ==
    /\ inp \in ToolInputs
    /\ pc = "start"
    /\ call = NoCall
    /\ wpc = "none"
    /\ config = NoConfig
    /\ args = NoArgs
    /\ event_data = NoEvent
    /\ request = NoRequest
    /\ posts = 0
    /\ net = "none"
    /\ result = "none"
    /\ exit_code = -1
    /\ wexit = -1
    /\ fault = "none"
    /\ blocked = 0
    /\ session_file = "none"
    /\ log = [kind |-> "missing", events |-> <<>>]
    /\ tts = <<>>
    /\ cand = <<>>
    /\ child = "none"
    /\ stdout = "none"
    /\ install = NoInstall
    /\ writers = NoWriters

\* A hook that lets every command through.
pre_exit_status_never_blocks(dangerous) == 0

\* Lines 34-40: sys.exit(1) for a dangerous command, sys.exit(0) otherwise.
pre_exit_status(dangerous) == IF dangerous THEN 1 ELSE 0

\* input_data.get('arguments', {}).get('command', ''): the text, '' when a
\* key is absent.
command_text(input_data) ==
    IF input_data.arguments = "absent" \/ input_data.command.kind = "absent"
    THEN <<>> ELSE input_data.command.text

\* The expressions of lines 32-34 that raise: .get on input that is no
\* object or on arguments that are no mapping, .lower on a command that is
\* no text.
check_raises(input_data) ==
    \/ input_data.kind = "nonobject"
    \/ /\ input_data.tool = "Bash"
       /\ \/ input_data.arguments = "null"
          \/ input_data.arguments = "map" /\ input_data.command.kind = "number"

\* Line 29: json.load of standard input.
pre_read_stdin ==
    /\ inp.hook = "pre_tool_use_safe"
    /\ pc = "start"
    /\ pc' = IF inp.stdin.kind = "malformed" THEN "except" ELSE "parsed"
    /\ UNCHANGED <<install, writers, stdout, notifVars, senderVars, call, inp, net, exit_code, fault,
                   blocked>>

\* Lines 32-40: a Bash command that is classified dangerous is blocked,
\* sys.exit(1) leaving the try as SystemExit; anything else is printed and
\* the hook exits 0.
pre_check ==
    /\ inp.hook = "pre_tool_use_safe"
    /\ pc = "parsed"
    /\ IF check_raises(inp.stdin)
       THEN pc' = "except" /\ UNCHANGED <<install, writers, stdout, call, exit_code>>
       ELSE IF inp.stdin.tool = "Bash"
       THEN LET command == command_text(inp.stdin)
                dangerous == is_dangerous_rm_command(command)
            IN /\ call' = [fn |-> "is_dangerous_rm_command", command |-> command,
                           value |-> dangerous]
               /\ pc' = "exited"
               /\ exit_code' = pre_exit_status(dangerous)
               /\ stdout' = IF dangerous THEN "none" ELSE "json"
       ELSE /\ pc' = "exited"
            /\ exit_code' = 0
            /\ stdout' = "json"
            /\ UNCHANGED call
    /\ UNCHANGED <<install, writers, notifVars, senderVars, inp, net, fault, blocked>>

\* Lines 42-52: on any exception the hook exits 0, after printing the raw
\* input when standard input is no terminal and can be rewound.
pre_recover ==
    /\ inp.hook = "pre_tool_use_safe"
    /\ pc = "except"
    /\ pc' = "exited"
    /\ exit_code' = 0
    /\ stdout' = IF ~inp.isatty /\ inp.seekable THEN "raw" ELSE "none"
    /\ UNCHANGED <<install, writers, notifVars, senderVars, call, inp, net, fault, blocked>>

ToolNext ==
    \/ pre_read_stdin
    \/ pre_check
    \/ pre_recover

ToolSpec == ToolInit /\ [][ToolNext]_vars

----------------------------------------------------------------------------
\* get_smart_server_url applied to every URL of a bounded set

\* Longest host of a URL, in atoms.
MaxHostAtoms == 2

HostTexts == UNION {[1..k -> {Placeholder, "obs.example", "api."}] : k \in 1..MaxHostAtoms}
PortTexts == {<<>>, <<":", "4000">>}
PathTexts == {<<>>, <<"/", "events">>, <<"/", Placeholder, "/", "events">>}
QueryTexts == {<<>>, <<"?", "v=1">>, <<"?", "target=", Placeholder>>}

Urls ==
    {<<scheme, "://">> \o host \o port \o path \o query :
        scheme \in {"http", "https"}, host \in HostTexts, port \in PortTexts,
        path \in PathTexts, query \in QueryTexts}

DockerEnvs ==
    {[BareHost EXCEPT !.dockerenv = a, !.cgroup = b, !.envvar = c] :
        a \in BOOLEAN, b \in BOOLEAN, c \in BOOLEAN}

\* The parts of a URL text: scheme://host[:port][/path][?query]
FirstAt(text, atoms, from) ==
    LET hits == {i \in from..Len(text) : text[i] \in atoms}
    IN IF hits = {} THEN Len(text) + 1
       ELSE CHOOSE i \in hits : \A j \in hits : i <= j

AuthorityEnd(url) == FirstAt(url, {"/", "?"}, 3)
QueryStart(url) == FirstAt(url, {"?"}, 3)
HostEnd(url) ==
    LET colon == FirstAt(url, {":"}, 3)
    IN IF colon < AuthorityEnd(url) THEN colon ELSE AuthorityEnd(url)

SchemeOf(url) == url[1]
HostOf(url) == SubSeq(url, 3, HostEnd(url) - 1)
PortOf(url) == SubSeq(url, HostEnd(url), AuthorityEnd(url) - 1)
PathOf(url) == SubSeq(url, AuthorityEnd(url), QueryStart(url) - 1)
QueryOf(url) == SubSeq(url, QueryStart(url), Len(url))

UrlIdle ==
    /\ inp = [hook |-> "none"]
    /\ pc = "idle"
    /\ wpc = "none"
    /\ config = NoConfig
    /\ args = NoArgs
    /\ event_data = NoEvent
    /\ request = NoRequest
    /\ posts = 0
    /\ net = "none"
    /\ result = "none"
    /\ exit_code = -1
    /\ wexit = -1
    /\ fault = "none"
    /\ blocked = 0
    /\ session_file = "none"
    /\ log = [kind |-> "missing", events |-> <<>>]
    /\ tts = <<>>
    /\ cand = <<>>
    /\ child = "none"
    /\ stdout = "none"
    /\ install = NoInstall
    /\ writers = NoWriters

UrlInit ==
    /\ call \in [fn : {"get_smart_server_url"}, config_url : Urls, env : DockerEnvs,
                  done : {FALSE}, value : {NoUrl}]
    /\ UrlIdle

resolve_server_url ==
    /\ call.fn = "get_smart_server_url"
    /\ ~call.done
    /\ call' = [call EXCEPT !.done = TRUE,
                            !.value = get_smart_server_url(call.config_url, call.env)]
    /\ UNCHANGED <<install, writers, stdout, notifVars, inp, pc, wpc, config, args, event_data, request,
                   posts, net, result, exit_code, wexit, fault, blocked, session_file>>

UrlNext == resolve_server_url

UrlSpec == UrlInit /\ [][UrlNext]_vars

----------------------------------------------------------------------------
\* detect_environment of both scripts applied to every combination of markers

MarkerEnvs ==
    {[BareHost EXCEPT !.dockerenv = a, !.containerenv = b, !.kubernetes = c,
                      !.workspace = d, !.win32 = e, !.microsoft = f] :
        a \in BOOLEAN, b \in BOOLEAN, c \in BOOLEAN, d \in BOOLEAN, e \in BOOLEAN,
        f \in BOOLEAN}

EnvInit ==
    /\ call \in [fn : {"detect_environment"},
                  script : {"send_event_universal", "universal_hook_wrapper"},
                  env : MarkerEnvs, done : {FALSE}, value : {"none"}]
    /\ UrlIdle

classify_environment ==
    /\ call.fn = "detect_environment"
    /\ ~call.done
    /\ call' = [call EXCEPT
                    !.done = TRUE,
                    !.value = IF call.script = "send_event_universal"
                              THEN detect_environment(call.env)
                              ELSE wrapper_detect_environment(call.env)]
    /\ UNCHANGED <<install, writers, stdout, notifVars, senderVars, inp, pc, net, exit_code, fault,
                   blocked>>

EnvNext == classify_environment

EnvSpec == EnvInit /\ [][EnvNext]_vars

----------------------------------------------------------------------------
\* The notification hooks invoked one after the other for one session

\* Longest log, in events.
MaxEvents == 3

\* Inputs of one session: every message, with and without --notify, and
\* input that is no JSON object.
SessionStdins ==
    {x \in NotificationStdins : x.kind = "object" => x.session_id = "sess-1"}

SessionInputs ==
    {Input(h, OtherFile("missing"), NotifyArgv(n), i, NoTranscript, BareHost, AllTools) :
        h \in NotificationHooks, n \in BOOLEAN, i \in SessionStdins}

LogInit ==
    /\ inp \in SessionInputs
    /\ log \in PriorLogs
    /\ pc = "start"
    /\ call = NoCall
    /\ wpc = "none"
    /\ config = NoConfig
    /\ args = NoArgs
    /\ event_data = NoEvent
    /\ request = NoRequest
    /\ posts = 0
    /\ net = "none"
    /\ result = "none"
    /\ exit_code = -1
    /\ wexit = -1
    /\ fault = "none"
    /\ blocked = 0
    /\ session_file = "none"
    /\ tts = <<>>
    /\ cand = <<>>
    /\ child = "none"
    /\ stdout = "none"
    /\ install = NoInstall
    /\ writers = NoWriters

\* The host agent runs a notification hook again once the previous one has
\* exited; the log file is all that the new process shares with it.
next_invocation ==
    /\ inp.hook \in NotificationHooks
    /\ pc = "exited"
    /\ Len(log.events) < MaxEvents
    /\ inp' \in SessionInputs
    /\ pc' = "start"
    /\ exit_code' = -1
    /\ net' = "none"
    /\ blocked' = 0
    /\ tts' = <<>>
    /\ cand' = <<>>
    /\ child' = "none"
    /\ UNCHANGED <<install, writers, stdout, senderVars, log, call, fault>>

LogNext ==
    \/ next_invocation
    \/ notification_log
    \/ notification_announce
    \/ tts_request_ends
    \/ tts_request_times_out
    \/ local_tts_ends
    \/ local_tts_times_out
    \/ server_tts_start
    \/ probe_ends
    \/ probe_times_out
    \/ tts_post_ends
    \/ tts_post_times_out

LogSpec == LogInit /\ [][LogNext]_vars

----------------------------------------------------------------------------
\* install.py

\* Most options on the command line after the target path.
MaxArgs == 3

\* The options of lines 186-215, and a word that is none of them.
InstallOptions ==
    {"--project-name", "--server-url", "--no-summarize", "--no-tts", "--no-chat",
     "--no-announce", "--minimal", "--container", "--subagent-safe"}
InstallWords == InstallOptions \cup {"my-app"}

\* sys.argv: the script alone, or the script, a target path that exists or
\* not, and the options.
InstallInputs ==
    {[hook |-> "install", argv |-> <<"install.py">>, target_exists |-> FALSE]}
        \cup {[hook |-> "install", argv |-> <<"install.py", "target">> \o o,
               target_exists |-> e] :
                 o \in SeqsUpTo(InstallWords, MaxArgs), e \in BOOLEAN}

\* Lines 173-178
DefaultFeatures == [k \in FeatureKeys |-> TRUE]

\* Line 206
MinimalFeatures == [k \in FeatureKeys |-> k = "summarize"]

\* Lines 65-104: the configuration written to hooks-config.json.
create_config_from_template(project_name, server_url, features) ==
    LET summarize == IF features.summarize THEN <<"summarize">> ELSE <<>>
    IN [source_app |-> project_name,
        server_url |-> server_url,
        features |-> features,
        hooks |->
            [PreToolUse |-> [enabled |-> TRUE, options |-> summarize],
             PostToolUse |-> [enabled |-> TRUE, options |-> summarize],
             UserPromptSubmit |-> [enabled |-> TRUE, options |-> summarize],
             Notification |->
                 [enabled |-> features.tts_notifications,
                  options |-> IF features.tts_notifications
                              THEN <<"notify">> ELSE <<>>],
             Stop |->
                 [enabled |-> TRUE,
                  options |->
                      SelectSeq(<<"add-chat", "announce">>,
                                LAMBDA opt :
                                    features[IF opt = "add-chat"
                                             THEN "chat_transcript"
                                             ELSE "completion_announcements"])],
             SubagentStop |-> [enabled |-> TRUE, options |-> <<>>],
             PreCompact |-> [enabled |-> FALSE, options |-> <<>>]]]

\* Lines 112-140: the hooks of settings.json, one command for every enabled
\* hook, with the options of its configuration.
create_settings_from_config(cfg) ==
    {[hook_type |-> h, script |-> "send_event.py", options |-> cfg.hooks[h].options] :
        h \in {x \in DOMAIN cfg.hooks : cfg.hooks[x].enabled}}

\* Nothing written.
NoFile == [kind |-> "none"]

InstallInit ==
    /\ call = NoCall
    /\ inp \in InstallInputs
    /\ pc = "idle"
    /\ wpc = "none"
    /\ config = NoConfig
    /\ args = NoArgs
    /\ event_data = NoEvent
    /\ request = NoRequest
    /\ posts = 0
    /\ net = "none"
    /\ result = "none"
    /\ exit_code = -1
    /\ wexit = -1
    /\ fault = "none"
    /\ blocked = 0
    /\ session_file = "none"
    /\ log = [kind |-> "missing", events |-> <<>>]
    /\ tts = <<>>
    /\ cand = <<>>
    /\ child = "none"
    /\ stdout = "none"
    /\ writers = NoWriters
    /\ install =
            [pc |-> "start", i |-> 0, project_name |-> "None", server_url |-> "none",
             features |-> DefaultFeatures, minimal |-> FALSE, container_mode |-> FALSE,
             subagent_safe |-> FALSE, exit_code |-> -1, config |-> NoFile,
             settings |-> NoFile]

\* sys.argv[i], with Python's index from 0.
Argv(i) == inp.argv[i + 1]

\* Lines 153-183: without a target path the usage is printed and the script
\* exits 1; else the defaults are set and parsing starts at sys.argv[2].
install_start ==
    /\ install.pc = "start"
    /\ install' =
            IF Len(inp.argv) < 2
            THEN [install EXCEPT !.pc = "exited", !.exit_code = 1]
            ELSE [install EXCEPT
                      !.pc = "parsing",
                      !.i = 2,
                      !.server_url = "http://host.docker.internal:4000/events"]
    /\ UNCHANGED <<hookVars, writers>>

\* Lines 184-218: one turn of the loop over the options.
install_parse_argument ==
    /\ install.pc = "parsing"
    /\ install.i < Len(inp.argv)
    /\ LET arg == Argv(install.i)
           i == install.i
       IN install' =
            IF arg = "--project-name" /\ i + 1 < Len(inp.argv)
            THEN [install EXCEPT !.project_name = Argv(i + 1), !.i = i + 2]
            ELSE IF arg = "--server-url" /\ i + 1 < Len(inp.argv)
            THEN [install EXCEPT !.server_url = Argv(i + 1), !.i = i + 2]
            ELSE IF arg = "--no-summarize"
            THEN [install EXCEPT !.features.summarize = FALSE, !.i = i + 1]
            ELSE IF arg = "--no-tts"
            THEN [install EXCEPT !.features.tts_notifications = FALSE, !.i = i + 1]
            ELSE IF arg = "--no-chat"
            THEN [install EXCEPT !.features.chat_transcript = FALSE, !.i = i + 1]
            ELSE IF arg = "--no-announce"
            THEN [install EXCEPT !.features.completion_announcements = FALSE,
                                 !.i = i + 1]
            ELSE IF arg = "--minimal"
            THEN [install EXCEPT !.minimal = TRUE, !.features = MinimalFeatures,
                                 !.i = i + 1]
            ELSE IF arg = "--container"
            THEN [install EXCEPT !.container_mode = TRUE,
                                 !.features.summarize = FALSE, !.i = i + 1]
            ELSE IF arg = "--subagent-safe"
            THEN [install EXCEPT !.subagent_safe = TRUE, !.i = i + 1]
            ELSE [install EXCEPT !.pc = "exited", !.exit_code = 1]
    /\ UNCHANGED <<hookVars, writers>>

\* Lines 220-298: a target path that does not exist ends the script with
\* status 1; else the project name is detected when none was given, the hook
\* files are copied and hooks-config.json is written.
install_write_config ==
    /\ install.pc = "parsing"
    /\ install.i >= Len(inp.argv)
    /\ install' =
            IF ~inp.target_exists
            THEN [install EXCEPT !.pc = "exited", !.exit_code = 1]
            ELSE LET project_name == IF install.project_name = "None"
                                     THEN "detected" ELSE install.project_name
                 IN [install EXCEPT
                         !.pc = "config_written",
                         !.project_name = project_name,
                         !.config = create_config_from_template(
                                        project_name, install.server_url,
                                        install.features)]
    /\ UNCHANGED <<hookVars, writers>>

\* Lines 300-363: settings.json is copied from the subagent template, or
\* made from the configuration; a settings.json that is there is kept unless
\* the user answers y. The script ends by falling off main: status 0.
install_write_settings ==
    /\ install.pc = "config_written"
    /\ \E exists \in BOOLEAN, response \in {"y", "n"} :
         install' =
            [install EXCEPT
                 !.pc = "exited",
                 !.exit_code = 0,
                 !.settings =
                     IF exists /\ response # "y" THEN [kind |-> "kept"]
                     ELSE IF install.subagent_safe THEN [kind |-> "template"]
                     ELSE [kind |-> "made",
                           hooks |-> create_settings_from_config(install.config)]]
    /\ UNCHANGED <<hookVars, writers>>

InstallNext ==
    \/ install_start
    \/ install_parse_argument
    \/ install_write_config
    \/ install_write_settings

InstallSpec == InstallInit /\ [][InstallNext]_vars

----------------------------------------------------------------------------
\* Two notification hooks that run at the same time for one session

WriterIds == {"w1", "w2"}

\* The input of each hook: one session, a message of its own.
WriterStdins(w) ==
    {[GoodStdin EXCEPT !.message = m] :
        m \in IF w = "w1" THEN {"absent", "Permission needed"}
              ELSE {GenericMessage, "Tests passed"}}

NoLog == [kind |-> "missing", events |-> <<>>]

\* A hook that has not read the log yet.
NewWriter(hook, input_data) ==
    [hook |-> hook, input_data |-> input_data, pc |-> "start", log_data |-> NoLog,
     buffer |-> NoLog, peer_pc |-> "none"]

RaceInit ==
    /\ call = NoCall
    /\ log \in PriorLogs
    /\ inp = [hook |-> "none", log |-> log]
    /\ writers \in {[w \in WriterIds |-> NewWriter(h[w], i[w])] :
                        h \in [WriterIds -> NotificationHooks],
                        i \in {f \in [WriterIds -> UNION {WriterStdins(w) :
                                                              w \in WriterIds}] :
                                  \A w \in WriterIds : f[w] \in WriterStdins(w)}}
    /\ pc = "idle"
    /\ wpc = "none"
    /\ config = NoConfig
    /\ args = NoArgs
    /\ event_data = NoEvent
    /\ request = NoRequest
    /\ posts = 0
    /\ net = "none"
    /\ result = "none"
    /\ exit_code = -1
    /\ wexit = -1
    /\ fault = "none"
    /\ blocked = 0
    /\ session_file = "none"
    /\ tts = <<>>
    /\ cand = <<>>
    /\ child = "none"
    /\ stdout = "none"
    /\ install = NoInstall

\* The other hook.
Peer(w) == CHOOSE o \in WriterIds : o # w

\* A hook that appends to what the file holds when it opens it for writing.
log_to_write_merging(log_data, on_disk, input_data) == append_log(on_disk, input_data)

\* notification.py line 127 (notification_server_tts.py line 112): the input
\* is appended to the list that was read, whatever the file holds by now.
log_to_write(log_data, on_disk, input_data) == append_log(log_data, input_data)

\* Lines 107-125 (92-110): the input is parsed and the log file is read, a
\* missing file or one that is no JSON giving the empty list. Nothing is
\* locked.
writer_reads(w) ==
    /\ writers[w].pc = "start"
    /\ writers' = [writers EXCEPT ![w].pc = "read",
                                  ![w].log_data = log,
                                  ![w].peer_pc = writers[Peer(w)].pc]
    /\ UNCHANGED <<hookVars, install>>

\* Lines 127-130 (112-115): the input is appended in memory, which raises
\* when the stored JSON is no list and ends the hook with status 0; then
\* open(log_file, 'w') truncates the file.
writer_opens(w) ==
    /\ writers[w].pc = "read"
    /\ LET r == log_to_write(writers[w].log_data, log, writers[w].input_data) IN
         IF r.raised
         THEN /\ writers' = [writers EXCEPT ![w].pc = "exited"]
              /\ UNCHANGED log
         ELSE /\ writers' = [writers EXCEPT ![w].pc = "opened", ![w].buffer = r.log]
              /\ log' = [kind |-> "corrupt", events |-> <<>>]
    /\ UNCHANGED <<install, stdout, senderVars, tts, cand, child, call, inp, pc, net,
                   exit_code, fault, blocked>>

\* Lines 131 (116): json.dump and the close of the file put the list on disk.
writer_dumps(w) ==
    /\ writers[w].pc = "opened"
    /\ writers' = [writers EXCEPT ![w].pc = "logged"]
    /\ log' = writers[w].buffer
    /\ UNCHANGED <<install, stdout, senderVars, tts, cand, child, call, inp, pc, net,
                   exit_code, fault, blocked>>

RaceNext ==
    \E w \in WriterIds :
        \/ writer_reads(w)
        \/ writer_opens(w)
        \/ writer_dumps(w)

RaceSpec == RaceInit /\ [][RaceNext]_vars

----------------------------------------------------------------------------
\* Properties

\* The intents the request carries: query parameters of send_event.py, fields
\* of the event of send_event_universal.py.
SentIntents == request.params \cup request.body.intents

\* The configuration file sets the feature to false.
Disabled(file, key) ==
    /\ file.kind = "object"
    /\ file.features.kind = "map"
    /\ file.features.m[key] = "false"

\* The loaded configuration has no value for the feature.
Unset(features, key) ==
    features.kind = "absent" \/ (features.kind = "map" /\ features.m[key] = "absent")

\* The unhandled exceptions of send_event.py that the configuration causes.
ConfigFaults ==
    {"TypeError@80", "TypeError@143", "KeyError@143", "KeyError@145",
     "AttributeError@192"}

\* The records of the lines that parse as JSON, in file order.
ValidRecords(lines) ==
    LET valid == SelectSeq(lines, LAMBDA l : l \in JsonLines)
    IN [i \in 1..Len(valid) |-> Parsed(valid[i])]

\* C1: send_event.py main, given well-formed JSON on standard input, exits
\* with status 0 and without an unhandled exception, whatever the delivery
\* outcome and the configuration file.
C1_WellFormedInputExitsZero ==
    (/\ prog = "send_event"
     /\ pc = "exited"
     /\ inp.stdin.kind = "object"
     /\ inp.cfgFile.kind \in {"missing", "unparseable", "object"})
        => (exit_code = 0 /\ fault = "none")

\* C2: on standard input that is no JSON, an event sender exits with status 0
\* and issues no HTTP request (stated for the runs in which nothing else goes
\* wrong: no unhandled exception).
C2_MalformedInputExitsZeroNoDelivery ==
    (pc = "exited" /\ inp.stdin.kind = "malformed" /\ fault = "none")
        => (exit_code = 0 /\ posts = 0)

\* C3: send_event_to_server never raises to its caller; it returns True
\* exactly when the server answered 200 and False for every other outcome.
C3_DeliveryNeverRaises ==
    result # "none"
        => /\ result \in {"True", "False"}
           /\ (result = "True") <=> (net = "200")

\* C4: one invocation of send_event.py, direct or under safe_send_event.py,
\* issues at most one HTTP POST; a failed delivery is not attempted again.
C4_AtMostOnePost ==
    prog = "send_event" => posts <= 1

C4_Witness ==
    /\ inp.hook = "safe_send_event"
    /\ wpc = "exited"
    /\ result = "False"
    /\ net = "500"
    /\ posts = 1

\* C6: an intent reaches the server only if its flag was given and the
\* configuration file does not set its feature to false.
C6_IntentNeedsFlagAndFeature ==
    \A i \in IntentFlags :
        i \in SentIntents
            => (inp.argv[i] /\ ~Disabled(inp.cfgFile, FeatureOf(i)))

C6_Witness ==
    /\ posts = 1
    /\ inp.argv.summarize
    /\ Disabled(inp.cfgFile, "summarize")
    /\ "summarize" \notin SentIntents
    /\ "notify" \in SentIntents

\* C7: when the loaded configuration has no value for a feature, the feature
\* counts as enabled: the intent whose flag was given is sent, in every sender.
C7_UnsetFeatureIsEnabled ==
    \A i \in IntentFlags :
        (posts = 1 /\ inp.argv[i] /\ Unset(config.features, FeatureOf(i)))
            => i \in SentIntents

\* C8: load_config of send_event.py gives the built-in default when the file
\* is missing or is no JSON, and no content of the file ends the hook with an
\* unhandled exception (stated for the files that are missing, no JSON, or a
\* JSON object).
C8_ConfigNeverFailsTheHook ==
    (prog = "send_event" /\ inp.cfgFile.kind \in {"missing", "unparseable", "object"})
        => /\ (config # NoConfig /\ inp.cfgFile.kind \in {"missing", "unparseable"})
                => config = DefaultConfig(inp.env)
           /\ fault \notin ConfigFaults

\* The same for transcripts whose every line is text: what the loop of lines
\* 177-183 guarantees.
ChatOfTextLines ==
    (/\ prog = "send_event"
     /\ pc \in {"event_built", "posting"} \/ result # "none"
     /\ inp.argv.add_chat
     /\ inp.stdin.transcript_path
     /\ inp.transcript.exists
     /\ inp.transcript.readable
     /\ ~Contains(inp.transcript.lines, "binary"))
        => /\ event_data.has_chat
           /\ event_data.chat = ValidRecords(inp.transcript.lines)

\* C10: with chat requested and a transcript that exists and has a line that
\* parses, the event's chat is exactly the records of the lines that parse as
\* JSON, in file order, wherever the other lines are.
C10_ChatIsTheValidLines ==
    (/\ prog = "send_event"
     /\ pc \in {"event_built", "posting"} \/ result # "none"
     /\ inp.argv.add_chat
     /\ inp.stdin.transcript_path
     /\ inp.transcript.exists
     /\ inp.transcript.readable
     /\ \E k \in 1..Len(inp.transcript.lines) : inp.transcript.lines[k] \in JsonLines)
        => /\ event_data.has_chat
           /\ event_data.chat = ValidRecords(inp.transcript.lines)

\* C9: get_smart_server_url returns config_url when it does not contain the
\* placeholder or when the process runs in a container; otherwise the host
\* becomes the loopback name and scheme, port, path and query are those of
\* config_url (stated for the URLs whose host is the placeholder).
C9_SmartUrlRewritesTheHostOnly ==
    (call.done /\ HostOf(call.config_url) = <<Placeholder>>)
        => IF is_running_in_docker(call.env)
           THEN call.value = call.config_url
           ELSE /\ HostOf(call.value) = <<Loopback>>
                /\ SchemeOf(call.value) = SchemeOf(call.config_url)
                /\ PortOf(call.value) = PortOf(call.config_url)
                /\ PathOf(call.value) = PathOf(call.config_url)
                /\ QueryOf(call.value) = QueryOf(call.config_url)

\* What holds of get_smart_server_url: a URL without the placeholder, or any
\* URL in a container, is returned as it is; elsewhere every occurrence of
\* the placeholder becomes the loopback name and nothing else changes, so a
\* URL that has the placeholder as its host and nowhere else keeps scheme,
\* port, path and query.
SmartUrlReplacesEveryOccurrence ==
    call.done
        => LET url == call.config_url
               out == call.value
           IN IF ~Contains(url, Placeholder) \/ is_running_in_docker(call.env)
              THEN out = url
              ELSE /\ Len(out) = Len(url)
                   /\ \A i \in 1..Len(url) :
                        out[i] = IF url[i] = Placeholder THEN Loopback ELSE url[i]
                   /\ (/\ HostOf(url) = <<Placeholder>>
                       /\ ~Contains(PathOf(url), Placeholder)
                       /\ ~Contains(QueryOf(url), Placeholder))
                        => /\ HostOf(out) = <<Loopback>>
                           /\ SchemeOf(out) = SchemeOf(url)
                           /\ PortOf(out) = PortOf(url)
                           /\ PathOf(out) = PathOf(url)
                           /\ QueryOf(out) = QueryOf(url)

\* The application name the configuration gives a sender: the source_app of
\* send_event.py's loaded configuration, the project_name of
\* send_event_universal.py's, "unknown" when that one has none.
ConfiguredName ==
    IF prog = "send_event" THEN config.source_app
    ELSE IF config.project_name # "absent" THEN config.project_name ELSE "unknown"

\* C11: in both senders the envelope that is sent has the --event-type
\* argument as hook_event_type, the input's session_id (or "unknown" when it
\* has none) as session_id, the input itself with nothing added or removed as
\* payload, and as source_app the --source-app override when given, else the
\* configured application name.
C11_EnvelopeMatchesInput ==
    (posts = 1 /\ inp.stdin.kind = "object")
        => /\ request.body.hook_event_type = inp.argv.event_type
           /\ request.body.session_id =
                    (IF inp.stdin.session_id = "absent"
                     THEN "unknown" ELSE inp.stdin.session_id)
           /\ request.body.payload = [input |-> inp.stdin, added |-> {}]
           /\ request.body.source_app =
                    (IF inp.argv.source_app # "absent"
                     THEN inp.argv.source_app ELSE ConfiguredName)

\* The part of C11 that send_event.py keeps.
EnvelopeOfSendEvent ==
    prog = "send_event" => C11_EnvelopeMatchesInput

\* What send_event_universal.py sends instead: the session id of the
\* environment, the file or the clock, the input with the event type (and
\* the override) stored in it, and the configured project name whatever the
\* override.
EnvelopeOfUniversal ==
    (prog = "send_event_universal" /\ posts = 1)
        => /\ request.body.hook_event_type = inp.argv.event_type
           /\ request.body.session_id \in
                    {inp.env.claude_session_id, inp.session_file, NewSessionId}
           /\ "hook_event_type" \in request.body.payload.added
           /\ request.body.source_app = ConfiguredName

\* The server-side request of announce_notification is over.
TtsRequestOver ==
    /\ inp.hook = "notification"
    /\ tts # <<>>
    /\ pc \in {"local_tts", "exited"}

\* C12: announce_notification attempts the server-side request first; when
\* it succeeds (status 200) no local engine is attempted, and for every other
\* outcome (another status, a timeout, a connection error) the local fallback
\* announce_notification_local is attempted afterwards.
C12_ServerFirstThenLocalFallback ==
    inp.hook = "notification"
        => /\ tts # <<>> => Head(tts) = "server"
           /\ TtsRequestOver
                => IF net = "200" THEN tts = <<"server">>
                   ELSE Len(tts) >= 2 /\ tts[2] = "local"

\* What the code does: the fallback runs exactly when urlopen raised; a
\* status that raises nothing (200 or another 2xx) ends the chain.
FallbackWhenRequestRaises ==
    inp.hook = "notification"
        => /\ tts # <<>> => Head(tts) = "server"
           /\ TtsRequestOver
                => IF net \in {"200", "204"} THEN tts = <<"server">>
                   ELSE Len(tts) >= 2 /\ tts[2] = "local"

\* The first engine, in the order ElevenLabs, OpenAI, offline, whose script
\* exists and whose credential, if it needs one, is set.
FirstAvailable(env, tools) ==
    IF env.elevenlabs_key /\ tools.elevenlabs_tts THEN "elevenlabs"
    ELSE IF env.openai_key /\ tools.openai_tts THEN "openai"
    ELSE IF tools.pyttsx3_tts THEN "pyttsx3"
    ELSE "none"

\* The local fallback has been called and has chosen.
LocalChosen ==
    /\ inp.hook = "notification"
    /\ Len(tts) >= 2
    /\ tts[2] = "local"

\* The engine the local fallback invoked, "none" when it invoked nothing.
Invoked == IF Len(tts) >= 3 THEN tts[3] ELSE "none"

\* C13: the local fallback invokes the first engine that is available, in
\* the order ElevenLabs, OpenAI, offline: an engine whose credential is set
\* but whose script is missing is passed over for the next one, and nothing
\* is invoked only when no engine is available.
C13_FirstAvailableEngineIsInvoked ==
    LocalChosen => Invoked = FirstAvailable(inp.env, inp.tools)

\* What the code does: the first credential that is set selects the engine,
\* the offline one when none is set; when the selected script exists it is
\* the one invoked, and it is then the first available engine.
SelectedEngineIsInvoked ==
    LocalChosen
        => /\ Invoked = local_engine(inp.env, inp.tools)
           /\ Invoked # "none" => Invoked = FirstAvailable(inp.env, inp.tools)

\* The server did not answer the TTS request (connection refused or no
\* answer within the timeout) and no provider credential is set.
UnreachableNoCredential ==
    /\ TtsRequestOver
    /\ net \in {"refused", "silent"}
    /\ ~inp.env.elevenlabs_key
    /\ ~inp.env.openai_key

\* C14: when the server is unreachable and neither ELEVENLABS_API_KEY nor
\* OPENAI_API_KEY is set, the chain invokes the offline engine if its script
\* is present and nothing otherwise; no exception escapes, the hook is never
\* blocked longer than the timeouts of the calls it attempted, and it exits
\* with status 0.
C14_OfflineEngineOrSilence ==
    /\ [](UnreachableNoCredential
            => /\ LocalChosen
               /\ Invoked = (IF inp.tools.pyttsx3_tts THEN "pyttsx3" ELSE "none")
               /\ fault = "none"
               /\ blocked <= TtsRequestTimeout
                                + (IF Invoked # "none" THEN LocalTtsTimeout ELSE 0))
    /\ (UnreachableNoCredential ~> (pc = "exited" /\ exit_code = 0))

\* The server refused the connection, no credential is set, and the offline
\* engine has spoken before the hook exited.
C14_Witness ==
    /\ UnreachableNoCredential
    /\ net = "refused"
    /\ tts = <<"server", "local", "pyttsx3">>
    /\ child = "ok"
    /\ pc = "exited"
    /\ exit_code = 0

\* C15: in both notification hooks, an input whose message is the generic
\* "Claude is waiting for your input" never causes a TTS attempt (no server
\* request, no probe, no local engine), with or without --notify; and without
\* --notify no message causes one.
C15_GenericMessageIsNeverSpoken ==
    (/\ inp.hook \in NotificationHooks
     /\ (~inp.argv.notify \/ inp.stdin.message = GenericMessage))
        => /\ tts = <<>>
           /\ net = "none"
           /\ child = "none"
           /\ pc \in {"start", "logged", "exited"}

\* --notify is given, the message is the generic one: the input was logged
\* and the hook has exited without any TTS attempt.
C15_Witness ==
    /\ inp.hook \in NotificationHooks
    /\ inp.argv.notify
    /\ inp.stdin.kind = "object"
    /\ inp.stdin.message = GenericMessage
    /\ log.kind = "list"
    /\ log.events # <<>>
    /\ pc = "exited"
    /\ exit_code = 0
    /\ tts = <<>>

\* The input is a Bash tool call whose command the classifier calls
\* dangerous.
DangerousBash ==
    /\ inp.stdin.kind = "object"
    /\ inp.stdin.tool = "Bash"
    /\ ~check_raises(inp.stdin)
    /\ is_dangerous_rm_command(command_text(inp.stdin))

\* C16: pre_tool_use_safe.py exits with a non-zero status exactly when the
\* input is a Bash tool call whose command is_dangerous_rm_command
\* classifies as dangerous, and then prints nothing to standard output; for
\* every other input, malformed JSON and other tools included, it exits 0.
C16_BlocksExactlyDangerousBash ==
    (inp.hook = "pre_tool_use_safe" /\ pc = "exited")
        => /\ exit_code \in {0, 1}
           /\ exit_code # 0 <=> DangerousBash
           /\ exit_code # 0 => stdout = "none"

\* A Bash call of rm -rf was blocked with nothing printed.
C16_Witness ==
    /\ inp.hook = "pre_tool_use_safe"
    /\ inp.stdin.tool = "Bash"
    /\ inp.stdin.command = RmRf
    /\ pc = "exited"
    /\ exit_code = 1
    /\ stdout = "none"

\* The words of a command: command.lower().split()
RECURSIVE split(_, _, _)
split(text, word, out) ==
    IF text = <<>> THEN (IF word = <<>> THEN out ELSE Append(out, word))
    ELSE LET c == Head(text) IN
         IF IsSpace(c)
         THEN split(Tail(text), <<>>, IF word = <<>> THEN out ELSE Append(out, word))
         ELSE split(Tail(text), Append(word, lower(c)), out)

Words(command) == split(command, <<>>, <<>>)

\* A command that runs rm, and the option words it gives to it.
IsRm(command) ==
    Words(command) # <<>> /\ Head(Words(command)) = <<"r", "m">>

Options(command) ==
    {w \in {Words(command)[i] : i \in 2..Len(Words(command))} :
        Len(w) >= 2 /\ w[1] = "-" /\ w[2] \in LowerLetters}

HasFlag(command, letter) ==
    \E w \in Options(command) : \E i \in 2..Len(w) : w[i] = letter

\* The classifier has been applied to a command that runs rm.
ClassifiedRm ==
    /\ call.fn = "is_dangerous_rm_command"
    /\ IsRm(call.command)

\* C17: is_dangerous_rm_command is true for every rm command that carries
\* both the recursive and the force flag, in any letter case, either order,
\* with any whitespace between the words, combined in one option or given
\* separately as -r -f; and false for rm commands that carry neither flag,
\* such as rm file.txt or rm of a file whose name has a hyphen and the
\* letters r and f.
C17_ClassifiesRecursiveForce ==
    ClassifiedRm
        => /\ (HasFlag(call.command, "r") /\ HasFlag(call.command, "f")) => call.value
           /\ (~HasFlag(call.command, "r") /\ ~HasFlag(call.command, "f"))
                => ~call.value

\* What the code does: a command is dangerous when both letters stand in one
\* option word, and is not when nothing after rm contains a hyphen followed
\* by both letters.
CombinedFlagsAreDangerous ==
    ClassifiedRm
        => /\ (\E w \in Options(call.command) :
                    (\E i \in 2..Len(w) : w[i] = "r") /\ (\E i \in 2..Len(w) : w[i] = "f"))
                => call.value
           /\ (\A i \in 1..Len(call.command) : call.command[i] # "-") => ~call.value

\* Flags given separately are not seen.
SeparateFlagsAreMissed ==
    (/\ ClassifiedRm
     /\ Words(call.command) = <<(<<"r", "m">>), (<<"-", "r">>), (<<"-", "f">>)>>)
        => ~call.value

\* A file name with a hyphen followed by the letters is taken for flags.
HyphenatedNameIsBlocked ==
    (/\ ClassifiedRm
     /\ Len(Words(call.command)) = 2
     /\ Words(call.command)[2] = <<"m", "y", "-", "d", "r", "a", "f", "t", ".", "t", "x", "t">>)
        => call.value

EnvironmentNames ==
    {"container", "kubernetes", "wsl", "devcontainer", "windows", "unix", "unknown"}

\* C18: in both scripts detect_environment is first-match-wins with the
\* container markers and the Kubernetes variable first: whenever a container
\* marker file or KUBERNETES_SERVICE_HOST is present the result is container
\* or kubernetes, never wsl, devcontainer, windows, unix or unknown; and the
\* result is always one of container, kubernetes, wsl, devcontainer, windows,
\* unix, unknown.
C18_ContainerSignalsWin ==
    (call.fn = "detect_environment" /\ call.done)
        => /\ call.value \in EnvironmentNames
           /\ (call.env.dockerenv \/ call.env.containerenv \/ call.env.kubernetes)
                => call.value \in {"container", "kubernetes"}

\* What the code does. A marker file always wins, under the name docker for
\* /.dockerenv in universal_hook_wrapper.py; the wrapper puts the Kubernetes
\* variable before the WSL, Windows and default rules, and
\* send_event_universal.py does not read it.
MarkerFilesWin ==
    (call.fn = "detect_environment" /\ call.done)
        => /\ call.value \in EnvironmentNames \cup {"docker"}
           /\ (call.env.dockerenv \/ call.env.containerenv)
                => call.value \in {"container", "docker"}
           /\ (call.script = "universal_hook_wrapper" /\ call.env.kubernetes)
                => call.value \in {"container", "docker", "kubernetes"}
           /\ call.script = "send_event_universal"
                => call.value = detect_environment([call.env EXCEPT !.kubernetes = FALSE])

\* The events a log file holds: those of the list, none when the file is
\* missing or is no JSON.
StoredEvents(file) == IF file.kind = "list" THEN file.events ELSE <<>>

TranscriptRead ==
    /\ inp.stdin.kind = "object"
    /\ inp.stdin.transcript_path
    /\ inp.transcript.exists
    /\ inp.transcript.readable
    /\ ~Contains(inp.transcript.lines, "binary")

\* C23: the envelope send_event.py sends carries chat only if --add-chat was
\* given, the configuration does not set chat_transcript to false, the input
\* names a transcript, and that file exists and was read without error; in
\* every other case the envelope is sent without chat.
C23_ChatNeedsFlagFeatureAndTranscript ==
    (prog = "send_event" /\ posts = 1)
        => (request.body.has_chat
                <=> /\ inp.argv.add_chat
                    /\ ~Disabled(inp.cfgFile, "chat_transcript")
                    /\ TranscriptRead)

\* What send_event.py does: the flag and the transcript decide, and the
\* chat_transcript feature is not read.
ChatNeedsFlagAndTranscript ==
    (prog = "send_event" /\ posts = 1)
        => (request.body.has_chat <=> (inp.argv.add_chat /\ TranscriptRead))

\* A configuration that disables chat_transcript, and chat in the envelope.
ChatOfDisabledFeature ==
    /\ prog = "send_event"
    /\ posts = 1
    /\ Disabled(inp.cfgFile, "chat_transcript")
    /\ request.body.has_chat
    /\ request.body.chat = <<Parsed("j1")>>

\* Without the flag, or without a transcript that reads, the envelope is
\* sent all the same.
SentWithoutChat ==
    /\ prog = "send_event"
    /\ posts = 1
    /\ inp.argv.add_chat
    /\ inp.transcript.exists
    /\ ~inp.transcript.readable
    /\ ~request.body.has_chat

\* The feature an option of install.py disables.
FeatureDisabledBy(option) ==
    CASE option \in {"--container", "--no-summarize"} -> "summarize"
      [] option = "--no-tts" -> "tts_notifications"
      [] option = "--no-chat" -> "chat_transcript"
      [] option = "--no-announce" -> "completion_announcements"

DisablingOptions ==
    {"--container", "--no-summarize", "--no-tts", "--no-chat", "--no-announce"}

\* hooks-config.json was written.
ConfigWritten == install.pc # "none" /\ install.config # NoFile

\* C21: every disabling option of install.py takes effect wherever it
\* stands: when the command line contains --container or --no-summarize the
\* written features.summarize is false, and --no-tts, --no-chat and
\* --no-announce leave their feature false, whatever precedes or follows.
C21_DisablingOptionsWin ==
    ConfigWritten
        => \A k \in 3..Len(inp.argv) :
               inp.argv[k] \in DisablingOptions
                   => ~install.config.features[FeatureDisabledBy(inp.argv[k])]

\* The places of the command line that the loop of lines 184-218 reads as
\* options: the word after --project-name or --server-url is their value.
RECURSIVE OptionPlaces(_, _)
OptionPlaces(argv, k) ==
    IF k > Len(argv) THEN {}
    ELSE IF argv[k] \in {"--project-name", "--server-url"} /\ k < Len(argv)
         THEN {k} \cup OptionPlaces(argv, k + 2)
         ELSE {k} \cup OptionPlaces(argv, k + 1)

\* What install.py does: a disabling option that is read as an option wins,
\* except that --minimal later on the command line turns summarize on again.
DisablingOptionWinsUnlessMinimalFollows ==
    ConfigWritten
        => \A k \in OptionPlaces(inp.argv, 3) :
               (/\ inp.argv[k] \in DisablingOptions
                /\ \/ FeatureDisabledBy(inp.argv[k]) # "summarize"
                   \/ ~\E j \in OptionPlaces(inp.argv, 3) :
                          j > k /\ inp.argv[j] = "--minimal")
                   => ~install.config.features[FeatureDisabledBy(inp.argv[k])]

\* install.py target --no-summarize --minimal writes summarize: true.
MinimalAfterNoSummarize ==
    /\ ConfigWritten
    /\ inp.argv = <<"install.py", "target", "--no-summarize", "--minimal">>
    /\ install.config.features = MinimalFeatures
    /\ install.config.hooks.PreToolUse.options = <<"summarize">>

\* install.py target --project-name --no-tts reads --no-tts as the name.
OptionReadAsValue ==
    /\ ConfigWritten
    /\ inp.argv = <<"install.py", "target", "--project-name", "--no-tts">>
    /\ install.config.source_app = "--no-tts"
    /\ install.config.features = DefaultFeatures

\* Both hooks read the log before either opened it for writing, and both
\* have written.
BothReadThenBothWrote ==
    \A w \in WriterIds :
        writers[w].pc = "logged" /\ writers[w].peer_pc \in {"start", "read"}

\* The events of the two hooks that the log holds.
Logged ==
    {w \in WriterIds :
        \E k \in 1..Len(log.events) : log.events[k] = writers[w].input_data}

\* C22: the update of the session log is a read-modify-write without lock:
\* when two notification hooks of one session both read before either
\* writes, the log ends with the stored events and the event of one hook
\* only, the other event being lost.
C22_OverlappingWritersLoseAnEvent ==
    BothReadThenBothWrote
        => /\ log.kind = "list"
           /\ \E w \in WriterIds :
                 /\ log.events = Append(StoredEvents(inp.log), writers[w].input_data)
                 /\ Logged = {w}

\* Both hooks ran to the end of their write over a log of one event, and the
\* log holds that event and the event of the second hook alone.
C22_Witness ==
    /\ writers # NoWriters
    /\ BothReadThenBothWrote
    /\ Len(inp.log.events) = 1
    /\ log.events = Append(inp.log.events, writers["w2"].input_data)
    /\ Logged = {"w2"}

\* A hook that reads after the other one has written keeps both events.
OneAfterTheOtherKeepsBoth ==
    (/\ writers # NoWriters
     /\ \A w \in WriterIds : writers[w].pc = "logged"
     /\ \E w \in WriterIds : writers[w].peer_pc = "logged")
        => Logged = WriterIds
====
